---------------------------- MODULE Spec2Model ----------------------------
(***************************************************************************)
(* Model of the WMTS fetcher (containers/wmts-fetcher/fetch_tiles.py):     *)
(* the Web-Mercator tile arithmetic, the per-tile fetch loop, the mosaic   *)
(* assembly and the crop to the requested bounding box; of the             *)
(* geo-converter (containers/geo-converter/convert.py): the projection of  *)
(* pixel polygons and the run over the tiles of tiles.json; and of the     *)
(* local pipeline runner (run_pipeline.py).                                *)
(*                                                                         *)
(* The coordinates of the program are Python floats (IEEE-754 binary64).   *)
(* They are modelled bit-exactly: a float is a sign, a 53-bit mantissa and *)
(* a binary exponent, and every arithmetic operation rounds its exact      *)
(* result to nearest, ties to even.  Mantissas are wider than TLC's        *)
(* integers, so they are kept as little-endian sequences of 15-bit limbs.  *)
(* Subnormals, infinities and NaN are outside the magnitudes the program   *)
(* handles (metres on the Web-Mercator plane) and are not modelled.        *)
(***************************************************************************)
EXTENDS Integers, Sequences, FiniteSets, TLC

(***************************************************************************)
(* Natural numbers of any size: little-endian limbs, no leading zero limb. *)
(***************************************************************************)
Base == 32768
LimbBits == 15
MantBits == 53

Pow2(k) == 2 ^ k

Min(a, b) == IF a < b THEN a ELSE b
Max(a, b) == IF a > b THEN a ELSE b
Abs(a) == IF a < 0 THEN -a ELSE a

\* the tuple of the values of f on 1..2, on 1..4
Pair(f) == <<f[1], f[2]>>
Quad(f) == <<f[1], f[2], f[3], f[4]>>

SetMax(S) == CHOOSE x \in S : \A y \in S : y <= x

Limb(a, i) == IF 1 <= i /\ i <= Len(a) THEN a[i] ELSE 0

BigNorm(a) ==
    SubSeq(a, 1, SetMax({0} \cup {i \in 1..Len(a) : a[i] # 0}))

RECURSIVE BigFromInt(_)
BigFromInt(n) ==
    IF n = 0 THEN <<>> ELSE <<n % Base>> \o BigFromInt(n \div Base)

RECURSIVE BigToInt(_)
BigToInt(a) ==
    IF a = <<>> THEN 0 ELSE a[1] + Base * BigToInt(Tail(a))

BigCmpAt(a, b, i) == IF a[i] < b[i] THEN -1 ELSE 1

BigCmp(a, b) ==
    IF Len(a) < Len(b) THEN -1
    ELSE IF Len(a) > Len(b) THEN 1
    ELSE IF a = b THEN 0
    ELSE BigCmpAt(a, b, SetMax({i \in 1..Len(a) : a[i] # b[i]}))

\* a + b; the carry into limb i comes from the nearest lower limb whose sum
\* is not Base - 1
BigCarry(s, i) ==
    \E j \in 1..(i - 1) :
        /\ s[j] >= Base
        /\ \A k \in (j + 1)..(i - 1) : s[k] = Base - 1

BigAddSums(s) ==
    BigNorm([i \in 1..Len(s) |-> (s[i] + (IF BigCarry(s, i) THEN 1 ELSE 0)) % Base])

BigAdd(a, b) ==
    BigAddSums([i \in 1..(Max(Len(a), Len(b)) + 1) |-> Limb(a, i) + Limb(b, i)])

\* a - b for a >= b; the borrow into limb i comes from the nearest lower limb
\* whose difference is not 0
BigBorrow(d, i) ==
    \E j \in 1..(i - 1) :
        /\ d[j] < 0
        /\ \A k \in (j + 1)..(i - 1) : d[k] = 0

BigSubDiffs(d) ==
    BigNorm([i \in 1..Len(d) |->
                (d[i] + Base - (IF BigBorrow(d, i) THEN 1 ELSE 0)) % Base])

BigSub(a, b) == BigSubDiffs([i \in 1..Len(a) |-> a[i] - Limb(b, i)])

\* a * d for one limb d
BigMulLimb(a, d) ==
    BigAdd([i \in 1..Len(a) |-> (a[i] * d) % Base],
           <<0>> \o [i \in 1..Len(a) |-> (a[i] * d) \div Base])

Zeros(n) == [i \in 1..n |-> 0]

RECURSIVE BigMulFrom(_, _, _)
BigMulFrom(a, b, j) ==
    IF j > Len(b) THEN <<>>
    ELSE BigAdd(BigNorm(Zeros(j - 1) \o BigMulLimb(a, b[j])), BigMulFrom(a, b, j + 1))

BigMul(a, b) == BigMulFrom(a, b, 1)

\* a * d for d = 2^r, r < LimbBits: no carries
BigShlBits(a, d) ==
    [i \in 1..(Len(a) + 1) |-> ((Limb(a, i) * d) % Base) + ((Limb(a, i - 1) * d) \div Base)]

\* a * 2^k
BigShl(a, k) ==
    BigNorm(Zeros(k \div LimbBits) \o BigShlBits(a, Pow2(k % LimbBits)))

\* floor(b / d) for d = 2^r, r < LimbBits, and u = Base / d
BigShrBits(b, d, u) ==
    BigNorm([i \in 1..Len(b) |-> (b[i] \div d) + ((Limb(b, i + 1) % d) * u)])

\* floor(a / 2^k)
BigShr(a, k) ==
    BigShrBits(SubSeq(a, (k \div LimbBits) + 1, Len(a)),
               Pow2(k % LimbBits), Pow2(LimbBits - (k % LimbBits)))

\* bit i (from 0) of a
BigBit(a, i) == (Limb(a, (i \div LimbBits) + 1) \div Pow2(i % LimbBits)) % 2

BigBitLen(a) ==
    IF a = <<>> THEN 0
    ELSE LimbBits * (Len(a) - 1)
           + SetMax({n \in 1..LimbBits : a[Len(a)] >= Pow2(n - 1)})

\* a mod 2^k # 0
BigLowNonZero(a, k) ==
    \E i \in 1..Len(a) :
        /\ a[i] # 0
        /\ \/ i <= k \div LimbBits
           \/ i = (k \div LimbBits) + 1 /\ a[i] % Pow2(k % LimbBits) # 0

\* One step of schoolbook long division in base 2^15, for r < b * Base and
\* a divisor whose top limb is at least Base / 2: the quotient limb is
\* estimated from the top limbs and is then at most 2 too large.
RECURSIVE BigFixDigit(_, _, _)
BigFixDigit(r, b, d) ==
    IF BigCmp(BigMulLimb(b, d), r) > 0 THEN BigFixDigit(r, b, d - 1)
    ELSE d

BigDivDigit(r, b) ==
    BigFixDigit(r, b, Min(Base - 1,
                          (Limb(r, Len(b) + 1) * Base + Limb(r, Len(b))) \div b[Len(b)]))

\* the k limbs of floor(r * Base^k / b), lowest first, and whether the
\* division left a remainder, for r < b
RECURSIVE BigDivLimbs(_, _, _)
BigDivCons(d, rest) == [q |-> rest.q \o <<d>>, inexact |-> rest.inexact]

BigDivPut(r, b, k, d) ==
    BigDivCons(d, BigDivLimbs(BigSub(r, BigMulLimb(b, d)), b, k - 1))

BigDivStep(r, b, k) == BigDivPut(r, b, k, BigDivDigit(r, b))

BigDivLimbs(r, b, k) ==
    IF k = 0 THEN [q |-> <<>>, inexact |-> r # <<>>]
    ELSE BigDivStep(IF r = <<>> THEN <<>> ELSE <<0>> \o r, b, k)

\* floor(a * Base^k / b) and whether the division left a remainder, for
\* a < 2b; both are first scaled so that b fills its top limb
BigDivLead(ge, rest) ==
    [q |-> BigNorm(rest.q \o <<IF ge THEN 1 ELSE 0>>), inexact |-> rest.inexact]

BigDivFrom(a, b, k, ge) ==
    BigDivLead(ge, BigDivLimbs(IF ge THEN BigSub(a, b) ELSE a, b, k))

BigDivShifted(a, b, k) == BigDivFrom(a, b, k, BigCmp(a, b) >= 0)

BigDivBy(a, b, k, s) == BigDivShifted(BigShl(a, s), BigShl(b, s), k)

BigDivScaled(a, b, k) ==
    BigDivBy(a, b, k, (LimbBits - (BigBitLen(b) % LimbBits)) % LimbBits)

(***************************************************************************)
(* Python floats: value = (-1)^neg * m * 2^e with 2^52 <= m < 2^53, or 0.  *)
(***************************************************************************)
FZero == [neg |-> FALSE, m |-> <<>>, e |-> 0]

\* the float nearest to (-1)^neg * m * 2^e, ties to even
FRoundUp(m, sh, q) ==
    /\ BigBit(m, sh - 1) = 1
    /\ (BigLowNonZero(m, sh - 1) \/ BigBit(q, 0) = 1)

FRenorm(neg, q, e) ==
    IF BigBitLen(q) > MantBits
    THEN [neg |-> neg, m |-> BigShr(q, 1), e |-> e + 1]
    ELSE [neg |-> neg, m |-> q, e |-> e]

FRoundShift(neg, m, e, sh, q) ==
    FRenorm(neg, IF FRoundUp(m, sh, q) THEN BigAdd(q, <<1>>) ELSE q, e + sh)

FRoundBits(neg, m, e, n) ==
    IF n = 0 THEN FZero
    ELSE IF n <= MantBits
    THEN [neg |-> neg, m |-> BigShl(m, MantBits - n), e |-> e - (MantBits - n)]
    ELSE FRoundShift(neg, m, e, n - MantBits, BigShr(m, n - MantBits))

FRound(neg, m, e) == FRoundBits(neg, m, e, BigBitLen(m))

\* float(n) for a Python int n
FFromInt(n) == FRound(n < 0, BigFromInt(Abs(n)), 0)

FNeg(a) == IF a.m = <<>> THEN a ELSE [a EXCEPT !.neg = ~a.neg]

\* a + b, for the mantissas x and y of a and b at the common exponent e and
\* c the comparison of x with y
FAddCmp(a, b, x, y, e, c) ==
    FRound(IF a.neg = b.neg \/ c > 0 THEN a.neg ELSE b.neg,
           IF a.neg = b.neg THEN BigAdd(x, y)
           ELSE IF c >= 0 THEN BigSub(x, y) ELSE BigSub(y, x),
           e)

FAddAligned(a, b, x, y, e) == FAddCmp(a, b, x, y, e, BigCmp(x, y))

FAddAt(a, b, e) == FAddAligned(a, b, BigShl(a.m, a.e - e), BigShl(b.m, b.e - e), e)

FAdd(a, b) ==
    IF b.m = <<>> THEN a
    ELSE IF a.m = <<>> THEN b
    ELSE FAddAt(a, b, Min(a.e, b.e))

\* a - b
FSub(a, b) == FAdd(a, FNeg(b))

\* a * b
FMul(a, b) ==
    IF b.m = <<>> \/ a.m = <<>> THEN FZero
    ELSE FRound(a.neg # b.neg, BigMul(a.m, b.m), a.e + b.e)

\* a / b for b # 0 (no divisor of the program is 0): the quotient of the
\* mantissas to 60 fraction bits and a sticky bit for the remainder, rounded
DivLimbs == 4

FDivSticky(d) == BigAdd(BigShl(d.q, 1), IF d.inexact THEN <<1>> ELSE <<>>)

FDiv(a, b) ==
    IF b.m = <<>> \/ a.m = <<>> THEN FZero
    ELSE FRound(a.neg # b.neg, FDivSticky(BigDivScaled(a.m, b.m, DivLimbs)),
                a.e - b.e - DivLimbs * LimbBits - 1)

\* int(a): truncation toward zero
FTruncMag(a) ==
    IF a.e >= 0 THEN BigToInt(BigShl(a.m, a.e)) ELSE BigToInt(BigShr(a.m, -a.e))

FTrunc(a) == IF a.neg THEN -FTruncMag(a) ELSE FTruncMag(a)

\* a < b, a <= b (mantissas are normalised, so magnitudes order by (e, m))
FMagCmp(a, b) ==
    IF a.m = <<>> THEN (IF b.m = <<>> THEN 0 ELSE -1)
    ELSE IF b.m = <<>> THEN 1
    ELSE IF a.e < b.e THEN -1
    ELSE IF a.e > b.e THEN 1
    ELSE BigCmp(a.m, b.m)

FLt(a, b) ==
    IF a.neg # b.neg THEN a.neg
    ELSE IF a.neg THEN FMagCmp(b, a) < 0
    ELSE FMagCmp(a, b) < 0

FLe(a, b) == ~FLt(b, a)



\* a decimal literal n / d (d a power of ten) of the settings' JSON: the float
\* nearest to it, as the JSON parser returns it
Decimal(n, d) == FDiv(FFromInt(n), FFromInt(d))

(***************************************************************************)
(* Web-Mercator tile arithmetic.                                           *)
(***************************************************************************)
\* 20037508.342787 = 0x1.31bf8457c0e39p+24 = 5378777689099833 * 2^-28
ORIGIN == [neg |-> FALSE, m |-> <<3641, 2808, 28641, 152>>, e |-> -28]

MaxZoom == 19
TileSize == 512
MinPixels == 1024

\* 2 * ORIGIN / (2 ** zoom)
tile_size_meters(zoom) == FDiv(FMul(FFromInt(2), ORIGIN), FFromInt(Pow2(zoom)))

\* lines 23-25, for the tile_size_meters of line 22
meters_to_tile_by(x, y, tsm) ==
    <<FTrunc(FDiv(FAdd(x, ORIGIN), tsm)), FTrunc(FDiv(FSub(ORIGIN, y), tsm))>>

meters_to_tile(x, y, zoom) == meters_to_tile_by(x, y, tile_size_meters(zoom))

\* lines 31-33, for the tile_size_meters of line 30
tile_to_meters_by(tile_x, tile_y, tsm) ==
    <<FSub(FMul(FFromInt(tile_x), tsm), ORIGIN),
      FSub(ORIGIN, FMul(FFromInt(tile_y), tsm))>>

tile_to_meters(tile_x, tile_y, zoom) ==
    tile_to_meters_by(tile_x, tile_y, tile_size_meters(zoom))

\* Python's range(start, stop)
Range(start, stop) == [start |-> start, stop |-> stop]
RangeLen(r) == IF r.stop > r.start THEN r.stop - r.start ELSE 0

\* the south-west and the north-east corner of bbox, as tiles
corner_tiles(bbox, zoom) ==
    Pair([i \in 1..2 |-> meters_to_tile(bbox[2 * i - 1], bbox[2 * i], zoom)])

\* lines 45-48, for the corner tiles of lines 41 and 43
tile_ranges(sw, ne) ==
    <<Range(Min(sw[2], ne[2]), Max(sw[2], ne[2]) + 1),
      Range(Min(sw[1], ne[1]), Max(sw[1], ne[1]) + 1)>>

\* <<row_range, col_range>> of the tiles covering bbox
bbox_to_tiles_of(c) == tile_ranges(c[1], c[2])

bbox_to_tiles(bbox, zoom) == bbox_to_tiles_of(corner_tiles(bbox, zoom))

\* the north-west corner of tile (col, row) and of tile (col + 1, row + 1)
tile_corners(row, col, zoom) ==
    Pair([i \in 1..2 |-> tile_to_meters(col + i - 1, row + i - 1, zoom)])

\* line 58, for the corners of lines 54 and 56
tile_bbox_of(c) == <<c[1][1], c[2][2], c[2][1], c[1][2]>>

\* [min_x, min_y, max_x, max_y] of one tile
get_tile_bbox(row, col, zoom) == tile_bbox_of(tile_corners(row, col, zoom))

\* lines 176-178: the bbox of the mosaic, from its first and its last tile
merged_bbox_from(t) == <<t[1][1], t[2][2], t[2][3], t[1][4]>>

merged_bbox_of(row_range, col_range, zoom) ==
    merged_bbox_from(Pair([i \in 1..2 |->
        get_tile_bbox(IF i = 1 THEN row_range.start ELSE row_range.stop - 1,
                      IF i = 1 THEN col_range.start ELSE col_range.stop - 1, zoom)]))

\* lines 138-141: min(tiles_x, tiles_y) * tile_size at one zoom
zoom_pixels_of(c) ==
    Min(Abs(c[2][1] - c[1][1]) + 1, Abs(c[2][2] - c[1][2]) + 1) * TileSize

zoom_pixels(bbox, zoom) == zoom_pixels_of(corner_tiles(bbox, zoom))

RECURSIVE select_zoom_from(_, _, _)
select_zoom_from(bbox, zoom, min_pixels) ==
    IF zoom < 0 THEN MaxZoom
    ELSE IF zoom_pixels(bbox, zoom) >= min_pixels THEN zoom
    ELSE select_zoom_from(bbox, zoom - 1, min_pixels)

select_zoom_level(bbox) == select_zoom_from(bbox, MaxZoom, MinPixels)

\* a scan that returns the last zoom it tried, 0, when no level qualifies
select_zoom_fallback_zero(bbox, min_pixels) ==
    LET z == select_zoom_from(bbox, MaxZoom, min_pixels)
    IN  IF zoom_pixels(bbox, z) >= min_pixels THEN z ELSE 0

\* a scan from zoom 0 upwards
select_zoom_lowest(bbox, min_pixels) ==
    IF \E z \in 0..MaxZoom : zoom_pixels(bbox, z) >= min_pixels
    THEN CHOOSE z \in 0..MaxZoom :
            /\ zoom_pixels(bbox, z) >= min_pixels
            /\ \A k \in 0..(z - 1) : zoom_pixels(bbox, k) < min_pixels
    ELSE MaxZoom

\* select_zoom_level under a settings.min_pixels that MIN_PIXELS sets
select_zoom_level_at(bbox, min_pixels) == select_zoom_from(bbox, MaxZoom, min_pixels)

\* lines 138-139 without the abs()
tile_counts_no_abs(c) == <<c[2][1] - c[1][1] + 1, c[2][2] - c[1][2] + 1>>

\* lines 138-139: <<tiles_x, tiles_y>> for the corner tiles of lines 135-136
tile_counts_of(c) == <<Abs(c[2][1] - c[1][1]) + 1, Abs(c[2][2] - c[1][2]) + 1>>

tile_counts(bbox, zoom) == tile_counts_of(corner_tiles(bbox, zoom))

\* the operands of int() in lines 23-24
tile_ratios_by(x, y, tsm) ==
    <<FDiv(FAdd(x, ORIGIN), tsm), FDiv(FSub(ORIGIN, y), tsm)>>

tile_ratios(x, y, zoom) == tile_ratios_by(x, y, tile_size_meters(zoom))

(***************************************************************************)
(* Tiles, the mosaic and the crop.  An image is a view (box, in canvas     *)
(* pixels) onto a canvas of a given set of pastes; a canvas pixel no paste *)
(* covers keeps the background of Image.new.                               *)
(***************************************************************************)
None == [kind |-> "None"]

\* the picture the service holds for one tile: tile_size x tile_size pixels
TileImage(row, col, zoom) == [kind |-> "tile", row |-> row, col |-> col, zoom |-> zoom]

\* the answer to one GetTile request, as the client sees it
Responses ==
    {[transport |-> t, status |-> 0, ctype |-> <<>>, body |-> "none"] :
        t \in {"ConnectError", "ReadTimeout"}}
    \cup
    {[transport |-> "ok", status |-> st, ctype |-> ct, body |-> b] :
        st \in {200, 302, 404, 500},
        ct \in {<<"image", "/", "jpeg">>, <<"text", "/", "xml">>, <<>>},
        b  \in {"image", "garbage"}}

\* response.raise_for_status() raises unless the status is 2xx
RaisesForStatus(resp) == ~(200 <= resp.status /\ resp.status <= 299)

\* "image" in response.headers.get("content-type", "")
HasImageType(resp) == \E i \in 1..Len(resp.ctype) : resp.ctype[i] = "image"

\* how a call ends: it returns a value or it raises an exception
Return(v) == [raised |-> FALSE, value |-> v, exc |-> ""]
Raise(e)  == [raised |-> TRUE, value |-> None, exc |-> e]

\* lines 77-84, the body of the try: client.get raises on a transport error
\* or a timeout, raise_for_status on the status, Image.open on the body
fetch_tile_try(row, col, zoom, resp) ==
    IF resp.transport # "ok" THEN Raise(resp.transport)
    ELSE IF RaisesForStatus(resp) THEN Raise("HTTPStatusError")
    ELSE IF ~HasImageType(resp) THEN Return(None)
    ELSE IF resp.body # "image" THEN Raise("UnidentifiedImageError")
    ELSE Return(TileImage(row, col, zoom))

\* a fetch_tile without its except clause
fetch_tile_no_except(out) == out

\* lines 85-87: except Exception: return None
fetch_tile_except(out) == IF out.raised THEN Return(None) ELSE out

fetch_tile(row, col, zoom, resp) ==
    fetch_tile_except(fetch_tile_try(row, col, zoom, resp))

\* a dict in insertion order: a sequence of [k, v] with distinct keys
DictGet(d, key) ==
    IF \E i \in 1..Len(d) : d[i].k = key
    THEN d[CHOOSE i \in 1..Len(d) : d[i].k = key].v
    ELSE None

DictSet(d, key, val) ==
    IF \E i \in 1..Len(d) : d[i].k = key
    THEN [i \in 1..Len(d) |-> IF d[i].k = key THEN [k |-> key, v |-> val] ELSE d[i]]
    ELSE Append(d, [k |-> key, v |-> val])

\* a merge that fills the cells in the order the tiles came in
merge_tiles_in_order(tiles, row_range, col_range) ==
    [size   |-> <<RangeLen(col_range) * TileSize, RangeLen(row_range) * TileSize>>,
     box    |-> <<0, 0, RangeLen(col_range) * TileSize, RangeLen(row_range) * TileSize>>,
     pastes |-> {[at   |-> <<((i - 1) % RangeLen(col_range)) * TileSize,
                             ((i - 1) \div RangeLen(col_range)) * TileSize>>,
                  tile |-> tiles[i].v] :
                    i \in 1..Min(Len(tiles), RangeLen(row_range) * RangeLen(col_range))}]

\* a merge that takes the row offset for x and the column offset for y
merge_tiles_transposed(tiles, row_range, col_range) ==
    [size   |-> <<RangeLen(col_range) * TileSize, RangeLen(row_range) * TileSize>>,
     box    |-> <<0, 0, RangeLen(col_range) * TileSize, RangeLen(row_range) * TileSize>>,
     pastes |-> {[at   |-> <<(d.k[1] - row_range.start) * TileSize,
                             (d.k[2] - col_range.start) * TileSize>>,
                  tile |-> d.v] :
                    d \in {tiles[i] : i \in 1..Len(tiles)}}]

\* a new canvas and one paste for each cell of the rectangle that has a tile
merge_tiles(tiles, row_range, col_range) ==
    LET w == RangeLen(col_range) * TileSize
        h == RangeLen(row_range) * TileSize
    IN  [size   |-> <<w, h>>,
         box    |-> <<0, 0, w, h>>,
         pastes |-> {[at   |-> <<col_idx * TileSize, row_idx * TileSize>>,
                      tile |-> DictGet(tiles, <<row_range.start + row_idx,
                                                col_range.start + col_idx>>)] :
                        <<row_idx, col_idx>> \in
                            {c \in (0..(RangeLen(row_range) - 1))
                                     \X (0..(RangeLen(col_range) - 1)) :
                                DictGet(tiles, <<row_range.start + c[1],
                                                 col_range.start + c[2]>>) # None}}]

\* image.crop((left, top, right, bottom))
ImageCrop(image, left, top, right, bottom) ==
    [size   |-> <<right - left, bottom - top>>,
     box    |-> <<image.box[1] + left, image.box[2] + top,
                  image.box[1] + right, image.box[2] + bottom>>,
     pastes |-> image.pastes]

\* lines 107-108: metres per pixel along x and along y
per_pixel(image, image_bbox) ==
    Pair([i \in 1..2 |->
        FDiv(FSub(image_bbox[i + 2], image_bbox[i]), FFromInt(image.size[i]))])

\* lines 110-113: the pixel edges <<left, top, right, bottom>> of the target
crop_edges_by(image, image_bbox, target_bbox, pp) ==
    <<Max(0, FTrunc(FDiv(FSub(target_bbox[1], image_bbox[1]), pp[1]))),
      Max(0, FTrunc(FDiv(FSub(image_bbox[4], target_bbox[4]), pp[2]))),
      Min(image.size[1], FTrunc(FDiv(FSub(target_bbox[3], image_bbox[1]), pp[1]))),
      Min(image.size[2], FTrunc(FDiv(FSub(image_bbox[4], target_bbox[2]), pp[2])))>>

crop_edges(image, image_bbox, target_bbox) ==
    crop_edges_by(image, image_bbox, target_bbox, per_pixel(image, image_bbox))

\* lines 115-127, for the edges e of lines 110-113: the pair crop_to_bbox
\* returns, and the edges it used
crop_to_edges(image, image_bbox, pp, e) ==
    IF e[3] <= e[1] \/ e[4] <= e[2]
    THEN [image |-> image, bbox |-> image_bbox, edges |-> e]
    ELSE [image |-> ImageCrop(image, e[1], e[2], e[3], e[4]),
          bbox  |-> <<FAdd(image_bbox[1], FMul(FFromInt(e[1]), pp[1])),
                      FSub(image_bbox[4], FMul(FFromInt(e[4]), pp[2])),
                      FAdd(image_bbox[1], FMul(FFromInt(e[3]), pp[1])),
                      FSub(image_bbox[4], FMul(FFromInt(e[2]), pp[2]))>>,
          edges |-> e]

crop_to_bbox_by(image, image_bbox, target_bbox, pp) ==
    crop_to_edges(image, image_bbox, pp,
                  crop_edges_by(image, image_bbox, target_bbox, pp))

crop_to_bbox(image, image_bbox, target_bbox) ==
    crop_to_bbox_by(image, image_bbox, target_bbox, per_pixel(image, image_bbox))

(***************************************************************************)
(* The geo-converter, convert.py: pixel polygons to EPSG:4326 rings.       *)
(* ORIGIN is the same constant as in fetch_tiles.py.                       *)
(***************************************************************************)
\* math.pi = 0x1.921fb54442d18p+1 = 7074237752028440 * 2^-51
PI == [neg |-> FALSE, m |-> <<11544, 10376, 2029, 201>>, e |-> -51]

\* the ndigits of round(lon, 7) and round(lat, 7)
Digits == 7

RECURSIVE Pow10(_)
Pow10(k) == IF k = 0 THEN 1 ELSE 10 * Pow10(k - 1)

\* the integer nearest to p / 2^sh, ties to even, for q = floor(p / 2^sh)
RoundHalfEven(p, sh, q) ==
    BigToInt(IF FRoundUp(p, sh, q) THEN BigAdd(q, <<1>>) ELSE q)

\* the integer nearest to p * 2^e
ScaledInt(p, e) ==
    IF e >= 0 THEN BigToInt(BigShl(p, e)) ELSE RoundHalfEven(p, -e, BigShr(p, -e))

\* round(number, ndigits): the decimal of ndigits places nearest to the
\* float, ties to even, and then the float nearest to that decimal
round(number, ndigits) ==
    IF number.m = <<>> THEN number
    ELSE Decimal((IF number.neg THEN -1 ELSE 1)
                    * ScaledInt(BigMul(number.m, BigFromInt(Pow10(ndigits))), number.e),
                 Pow10(ndigits))

\* lines 20-21.  math.exp and math.atan are the C library's and are not
\* computed here: the latitude stands as the term atan(exp(t)) * 360 / pi - 90
\* in its float argument t = y * pi / ORIGIN.
epsg3857_to_epsg4326(x, y) ==
    <<FDiv(FMul(x, FFromInt(180)), ORIGIN),
      [atan_exp |-> FDiv(FMul(y, PI), ORIGIN)]>>

\* line 41: [round(lon, 7), round(lat, 7)]
rounded_lonlat(ll) ==
    <<round(ll[1], Digits), [rounded |-> ll[2], ndigits |-> Digits]>>

\* lines 36-41 for one pixel [px, py]
pixel_to_lonlat(p, min_x, max_y, x_scale, y_scale) ==
    rounded_lonlat(epsg3857_to_epsg4326(FAdd(min_x, FMul(p[1], x_scale)),
                                        FSub(max_y, FMul(p[2], y_scale))))

\* lines 33-41: the coordinates in the order of the pixels
polygon_coords(polygon_pixel, min_x, max_y, x_scale, y_scale) ==
    [i \in 1..Len(polygon_pixel) |->
        pixel_to_lonlat(polygon_pixel[i], min_x, max_y, x_scale, y_scale)]

\* a ring closed with the wrong end of the list, coords[-1]
close_ring_with_last(coords) == Append(coords, coords[Len(coords)])

\* line 44: coords.append(coords[0])
close_ring(coords) == Append(coords, coords[1])

\* lines 27-46; the divisions by a zero width or height and coords[0] of an
\* empty list raise
pixel_polygon_to_lonlat_polygon(polygon_pixel, image_size, bbox_3857) ==
    IF image_size[1] = 0 \/ image_size[2] = 0 THEN Raise("ZeroDivisionError")
    ELSE IF polygon_pixel = <<>> THEN Raise("IndexError")
    ELSE Return(<<close_ring(polygon_coords(polygon_pixel, bbox_3857[1], bbox_3857[4],
                    FDiv(FSub(bbox_3857[3], bbox_3857[1]), FFromInt(image_size[1])),
                    FDiv(FSub(bbox_3857[4], bbox_3857[2]), FFromInt(image_size[2]))))>>)

(***************************************************************************)
(* The geo-converter's run over the tiles of tiles.json.  The files are    *)
(* fs = [manifest, detections, meta]: the content of tiles.json and, per   *)
(* tile id, of the detections file and of the tile's metadata file; None   *)
(* stands for a file that does not exist.                                  *)
(***************************************************************************)
File(data) == [kind |-> "file", data |-> data]

\* obj.name of Python: the attribute, or AttributeError
HasAttr(obj, name) == name \in DOMAIN obj

\* lines 75-87: the feature of one detection, for the ring of line 74
Feature(det, ring, tile_id, parking_name) ==
    [type       |-> "Feature",
     properties |-> [class |-> det.class_name, confidence |-> det.confidence,
                     parking |-> parking_name, tile_id |-> tile_id],
     geometry   |-> [type |-> "Polygon", coordinates |-> ring]]

\* line 74 for every detection of the file
tile_rings(detections, meta) ==
    [i \in 1..Len(detections) |->
        pixel_polygon_to_lonlat_polygon(detections[i].polygon_pixel,
                                        meta.image_size, meta.bbox)]

\* lines 72-92, for the rings of line 74: the first exception raised, if any
tile_features(detections, rings, tile_id, parking_name) ==
    IF \E i \in 1..Len(rings) : rings[i].raised
    THEN rings[CHOOSE i \in 1..Len(rings) :
                  rings[i].raised /\ \A j \in 1..(i - 1) : ~rings[j].raised]
    ELSE Return([tile_id  |-> tile_id,
                 features |-> [i \in 1..Len(rings) |->
                     Feature(detections[i], rings[i].value, tile_id, parking_name)]])

\* lines 49-92
convert_tile_detections(tile_id, parking_name, fs, stg) ==
    IF ~HasAttr(stg, "detections_dir") \/ ~HasAttr(stg, "tiles_dir")
    THEN Raise("AttributeError")
    ELSE IF fs.detections[tile_id] = None THEN Return(None)
    ELSE IF fs.meta[tile_id] = None THEN Return(None)
    ELSE tile_features(fs.detections[tile_id].data,
                       tile_rings(fs.detections[tile_id].data, fs.meta[tile_id].data),
                       tile_id, parking_name)

\* lines 129-142: the file <parking>_<tile_id>_vehicles.geojson
TileGeoJson(tile_id, parking_name, features) ==
    [name       |-> <<parking_name, tile_id, "vehicles.geojson">>,
     type       |-> "FeatureCollection",
     properties |-> [parking |-> parking_name, tile_id |-> tile_id,
                     total_vehicles |-> Len(features), crs |-> "EPSG:4326"],
     features   |-> features]

\* lines 122-142: one converted tile added to the run's state
tile_done(acc, tile_id, parking_name, features) ==
    [out             |-> acc.out,
     all_features    |-> acc.all_features \o features,
     processed_count |-> acc.processed_count + 1,
     total_vehicles  |-> acc.total_vehicles + Len(features),
     files           |-> Append(acc.files, TileGeoJson(tile_id, parking_name, features))]

\* lines 116-142: one iteration, for the result of line 117
tile_step(acc, tile_id, parking_name, result) ==
    IF result.raised THEN [acc EXCEPT !.out = result]
    ELSE IF result.value = None THEN acc
    ELSE tile_done(acc, tile_id, parking_name, result.value.features)

\* lines 115-144: the loop from tile k of the manifest on
RECURSIVE tiles_loop(_, _, _, _, _, _)
tiles_loop(acc, tiles_json, k, parking_name, fs, stg) ==
    IF k > Len(tiles_json) \/ acc.out.raised THEN acc
    ELSE tiles_loop(tile_step(acc, tiles_json[k].tile_id, parking_name,
                        convert_tile_detections(tiles_json[k].tile_id, parking_name, fs, stg)),
                    tiles_json, k + 1, parking_name, fs, stg)

\* lines 111-113
LoopStart ==
    [out |-> Return(None), all_features |-> <<>>, processed_count |-> 0,
     total_vehicles |-> 0, files |-> <<>>]

\* lines 148-152, unless the loop raised
process_result(acc, parking_name) ==
    [out   |-> IF acc.out.raised THEN acc.out
               ELSE Return([parking         |-> parking_name,
                            processed_tiles |-> acc.processed_count,
                            total_vehicles  |-> acc.total_vehicles]),
     files |-> acc.files]

\* lines 95-152: what the call returns or raises, and the files it wrote
process_all_tiles(fs, stg) ==
    IF ~HasAttr(stg, "tiles_dir")
    THEN [out |-> Raise("AttributeError"), files |-> <<>>]
    ELSE IF fs.manifest = None
    THEN [out |-> Raise("FileNotFoundError"), files |-> <<>>]
    ELSE IF ~HasAttr(stg, "output_dir")
    THEN [out |-> Raise("AttributeError"), files |-> <<>>]
    ELSE process_result(
            tiles_loop(LoopStart, fs.manifest.data, 1,
                       IF Len(fs.manifest.data) > 0 THEN fs.manifest.data[1].parking
                       ELSE "unknown", fs, stg),
            IF Len(fs.manifest.data) > 0 THEN fs.manifest.data[1].parking ELSE "unknown")

(***************************************************************************)
(* The run of the fetcher: main() calling fetch_orthophoto().              *)
(***************************************************************************)
VARIABLES
    settings,      \* [bbox, zoom]: settings.bbox and settings.zoom (0 for None)
    pc,            \* where the run stands
    zoom,          \* the zoom level in use
    row_range,     \* the tile rectangle
    col_range,
    pos,           \* the number of loop iterations done
    tiles,         \* the tile map, in insertion order
    requests,      \* the GetTile requests sent so far, in order
    response,      \* the answer to the last request
    returned,      \* what fetch_tile returned for it
    merged,        \* the mosaic and its bbox
    merged_bbox,
    crop,          \* what crop_to_bbox returned
    files,         \* the files written to output_dir
    error,         \* the message of the exception main() caught
    exit_code,     \* the exit status, once pc = "exit"
    call,          \* a pending call of one function, with its arguments
    ret,           \* and what it returned
    environ,       \* os.environ of run_pipeline.py
    runner_pc,     \* where run_pipeline.py's main() stands
    step,          \* the step main() is at, from 1
    commands,      \* the commands run so far, with their environments
    returncodes,   \* the return codes of those that have exited
    printed,       \* the headlines printed so far
    runner_exit    \* the exit status of run_pipeline.py, once runner_pc = "exit"

proc_vars == <<settings, pc, zoom, row_range, col_range, pos, tiles, requests,
               response, returned, merged, merged_bbox, crop, files, error,
               exit_code>>
fn_vars == <<call, ret>>
run_vars == <<environ, runner_pc, step, commands, returncodes, printed, runner_exit>>
vars == <<settings, pc, zoom, row_range, col_range, pos, tiles, requests,
          response, returned, merged, merged_bbox, crop, files, error,
          exit_code, call, ret, environ, runner_pc, step, commands,
          returncodes, printed, runner_exit>>

Box(n, d) == Quad([i \in 1..4 |-> Decimal(n[i], d)])

\* settings.bbox: the default of config.py, a box across the origin, a box
\* over Warsaw, a box across the western edge of the world and one beyond it
DefaultBox == Box(<<20996, 52229, 21001, 52232>>, 1000)
OriginBox  == Box(<<-50, -30, 50, 30>>, 1)
WarsawBox  == Box(<<233700050, 684200025, 233710050, 684205025>>, 100)
EdgeBox    == Box(<<-200376085, 1000, -200374085, 2000>>, 10)
BeyondBox  == Box(<<-200376485, 100, -200376085, 400>>, 10)

SettingsBoxes == {DefaultBox, OriginBox, WarsawBox, EdgeBox, BeyondBox}

\* settings.zoom: 0 (unset: select_zoom_level decides) or a fixed level
SettingsZooms == {0, 3, 12}

NoRange == Range(0, 0)
NoBox == <<>>
NoResponse == [transport |-> "none", status |-> 0, ctype |-> <<>>, body |-> "none"]
NoCrop == [image |-> None, bbox |-> NoBox, edges |-> <<0, 0, 0, 0>>]
NoCall == [fn |-> "none"]
NoRet == [fn |-> "none"]
NoTilesMessage == "No tiles were fetched successfully"

ProcIdle ==
    /\ zoom = 0
    /\ row_range = NoRange
    /\ col_range = NoRange
    /\ pos = 0
    /\ tiles = <<>>
    /\ requests = <<>>
    /\ response = NoResponse
    /\ returned = Return(None)
    /\ merged = None
    /\ merged_bbox = NoBox
    /\ crop = NoCrop
    /\ files = {}
    /\ error = ""
    /\ exit_code = 0

\* run_pipeline.py is not running
RunnerIdle ==
    /\ environ = <<>>
    /\ runner_pc = "none"
    /\ step = 0
    /\ commands = <<>>
    /\ returncodes = <<>>
    /\ printed = <<>>
    /\ runner_exit = 0

Init ==
    /\ settings \in [bbox : SettingsBoxes, zoom : SettingsZooms]
    /\ pc = "start"
    /\ ProcIdle
    /\ RunnerIdle
    /\ call = NoCall
    /\ ret = NoRet

TotalTiles == RangeLen(row_range) * RangeLen(col_range)

\* the (row, col) of loop iteration k (from 0): rows outside, columns inside
TileAt(k) ==
    <<row_range.start + (k \div RangeLen(col_range)),
      col_range.start + (k % RangeLen(col_range))>>

\* lines 149-160: the zoom level and the tile rectangle
Begin ==
    /\ pc = "start"
    /\ zoom' = IF settings.zoom # 0 THEN settings.zoom
               ELSE select_zoom_level(settings.bbox)
    /\ \E rc \in {bbox_to_tiles(settings.bbox, zoom')} :
          /\ row_range' = rc[1]
          /\ col_range' = rc[2]
    /\ pos' = 0
    /\ tiles' = <<>>
    /\ pc' = "fetch"
    /\ UNCHANGED <<settings, requests, response, returned, merged, merged_bbox,
                   crop, files, error, exit_code, call, ret, run_vars>>

\* a loop that asks again for a tile it did not get
NextPosRetry(k, tile) == IF tile = None THEN k ELSE k + 1

\* the loop goes on to the next tile whatever fetch_tile returned
NextPos(k, tile) == k + 1

\* lines 165-168, for the outcome of the call of fetch_tile; an exception
\* out of the loop would end the run in main(), lines 209-211
FetchTileDone(row, col, resp, out) ==
    /\ requests' = Append(requests, <<row, col>>)
    /\ response' = resp
    /\ returned' = out
    /\ tiles' = IF ~out.raised /\ out.value # None
                THEN DictSet(tiles, <<row, col>>, out.value)
                ELSE tiles
    /\ pos' = IF out.raised THEN pos ELSE NextPos(pos, out.value)
    /\ pc' = IF out.raised THEN "exit" ELSE pc
    /\ error' = IF out.raised THEN out.exc ELSE error
    /\ exit_code' = IF out.raised THEN 1 ELSE exit_code

\* lines 162-168: one iteration of the loop, for any answer of the service
FetchTile ==
    /\ pc = "fetch"
    /\ pos < TotalTiles
    /\ \E resp \in Responses :
          FetchTileDone(TileAt(pos)[1], TileAt(pos)[2], resp,
                        fetch_tile(TileAt(pos)[1], TileAt(pos)[2], zoom, resp))
    /\ UNCHANGED <<settings, zoom, row_range, col_range, merged, merged_bbox,
                   crop, files, call, ret, run_vars>>

\* lines 170-171 and 209-211: no tile at all, RuntimeError, exit status 1
NoTilesFetched ==
    /\ pc = "fetch"
    /\ pos >= TotalTiles
    /\ tiles = <<>>
    /\ error' = NoTilesMessage
    /\ exit_code' = 1
    /\ pc' = "exit"
    /\ UNCHANGED <<settings, zoom, row_range, col_range, pos, tiles, requests,
                   response, returned, merged, merged_bbox, crop, files, call, ret, run_vars>>

\* a run that goes on to merge whatever the tile map holds
MergeTilesAlways ==
    /\ pc = "fetch"
    /\ pos >= TotalTiles
    /\ merged' = merge_tiles(tiles, row_range, col_range)
    /\ merged_bbox' = merged_bbox_of(row_range, col_range, zoom)
    /\ pc' = "merged"
    /\ UNCHANGED <<settings, zoom, row_range, col_range, pos, tiles, requests,
                   response, returned, crop, files, error, exit_code, call, ret, run_vars>>

\* lines 173-178: the mosaic and its bbox
MergeTiles ==
    /\ pc = "fetch"
    /\ pos >= TotalTiles
    /\ tiles # <<>>
    /\ merged' = merge_tiles(tiles, row_range, col_range)
    /\ merged_bbox' = merged_bbox_of(row_range, col_range, zoom)
    /\ pc' = "merged"
    /\ UNCHANGED <<settings, zoom, row_range, col_range, pos, tiles, requests,
                   response, returned, crop, files, error, exit_code, call, ret, run_vars>>

\* lines 180-181
CropToBBox ==
    /\ pc = "merged"
    /\ crop' = crop_to_bbox(merged, merged_bbox, settings.bbox)
    /\ pc' = "cropped"
    /\ UNCHANGED <<settings, zoom, row_range, col_range, pos, tiles, requests,
                   response, returned, merged, merged_bbox, files, error,
                   exit_code, call, ret, run_vars>>

\* lines 183-199: the image and its metadata
SaveOutputs ==
    /\ pc = "cropped"
    /\ files' = {[file |-> "image", image |-> crop.image],
                 [file |-> "meta", bbox |-> crop.bbox, image_size |-> crop.image.size,
                  crs |-> "EPSG:3857", zoom_level |-> zoom]}
    /\ pc' = "saved"
    /\ UNCHANGED <<settings, zoom, row_range, col_range, pos, tiles, requests,
                   response, returned, merged, merged_bbox, crop, error,
                   exit_code, call, ret, run_vars>>

\* lines 201 and 206-208: fetch_orthophoto returns and main() ends
ExitSuccess ==
    /\ pc = "saved"
    /\ exit_code' = 0
    /\ pc' = "exit"
    /\ UNCHANGED <<settings, zoom, row_range, col_range, pos, tiles, requests,
                   response, returned, merged, merged_bbox, crop, files, error,
                   call, ret, run_vars>>

Next ==
    \/ Begin
    \/ FetchTile
    \/ NoTilesFetched
    \/ MergeTiles
    \/ CropToBBox
    \/ SaveOutputs
    \/ ExitSuccess

Spec == Init /\ [][Next]_vars

(***************************************************************************)
(* Single calls of the functions, on arguments drawn from bounded sets.    *)
(***************************************************************************)
MaxTileIndex == 2
MaxDictLen == 3
MaxWidth == 7
MaxExtent == 9

\* meters_to_tile(*tile_to_meters(col, row, zoom), zoom)
RoundTripCalls ==
    {[fn |-> "round_trip", col |-> c, row |-> r, zoom |-> z] :
        z \in 0..MaxZoom,
        c \in 0..MaxTileIndex,
        r \in 0..MaxTileIndex}

\* a box inside the world whose max_x is the float next above a tile edge:
\* [17102000, 100, 17102326.456636563, 200], the third being
\* 0x1.04f5f674e6224p+24 = 4590870801048100 * 2^-28
EdgeFloat == [neg |-> FALSE, m |-> <<25124, 20124, 15741, 130>>, e |-> -28]
InsideBox == <<FFromInt(17102000), FFromInt(100), EdgeFloat, FFromInt(200)>>

\* bbox_to_tiles(bbox, zoom) and the bbox of the mosaic of its rectangle
TileRectCalls ==
    {[fn |-> "bbox_to_tiles", bbox |-> b, zoom |-> z] :
        b \in SettingsBoxes \cup {InsideBox}, z \in 0..MaxZoom}

\* crop_to_bbox on the mosaic of bbox at zoom, to bbox or to the mosaic's own bbox
CropMosaicCalls ==
    {[fn |-> "crop_mosaic", bbox |-> b, zoom |-> z, identity |-> id] :
        b \in SettingsBoxes, z \in 0..MaxZoom, id \in BOOLEAN}

\* crop_to_bbox on an image of width x 1 pixels over [0, 0, extent, 1], to that bbox
CropImageCalls ==
    {[fn |-> "crop_image", width |-> w, extent |-> x] :
        w \in 1..MaxWidth, x \in 1..MaxExtent}

\* the rectangle of the merges, and the keys a tile map may hold: its four
\* tiles and one outside it
MergeRows == Range(5, 7)
MergeCols == Range(8, 10)
MergeKeys == {<<5, 8>>, <<5, 9>>, <<6, 8>>, <<6, 9>>, <<7, 8>>}

\* the tile maps of at most MaxDictLen entries, in every insertion order
TileMaps ==
    {[i \in 1..Len(ks) |-> [k |-> ks[i], v |-> TileImage(ks[i][1], ks[i][2], MaxZoom)]] :
        ks \in {q \in UNION {[1..n -> MergeKeys] : n \in 0..MaxDictLen} :
                    \A i, j \in 1..Len(q) : q[i] = q[j] => i = j}}

\* merge_tiles on a tile map and on the same entries inserted in another order
MergeCalls ==
    {[fn |-> "merge_tiles", tiles |-> t[1], other |-> t[2]] :
        t \in {u \in TileMaps \X TileMaps :
                  {u[1][i] : i \in 1..Len(u[1])} = {u[2][i] : i \in 1..Len(u[2])}}}

\* a box over Poland and a box that is one point, the origin
PolandBox == Box(<<1500000, 6200000, 2700000, 7400000>>, 1)
PointBox == Box(<<0, 0, 0, 0>>, 1)
ZoomBoxes == SettingsBoxes \cup {InsideBox, PolandBox, PointBox}

\* settings.min_pixels, from MIN_PIXELS: the default, values around the
\* tile size and values beyond the pixels of every box at zoom 19
MinPixelsValues == {1, 512, 513, MinPixels, 2048, 1048576, 1073741824}

\* select_zoom_level(bbox) under settings.min_pixels
SelectZoomCalls ==
    {[fn |-> "select_zoom_level", bbox |-> b, min_pixels |-> p] :
        b \in ZoomBoxes, p \in MinPixelsValues}

\* meters_to_tile(x, y, zoom) on the corners of the boxes
MetersToTileCalls ==
    {[fn |-> "meters_to_tile", x |-> b[2 * i - 1], y |-> b[2 * i], zoom |-> z] :
        b \in ZoomBoxes, i \in 1..2, z \in 0..MaxZoom}

Calls ==
    {c \in RoundTripCalls : c.col < Pow2(c.zoom) /\ c.row < Pow2(c.zoom)}
        \cup TileRectCalls \cup CropMosaicCalls \cup CropImageCalls \cup MergeCalls
        \cup SelectZoomCalls \cup MetersToTileCalls

InitFn ==
    /\ settings = [bbox |-> DefaultBox, zoom |-> 0]
    /\ pc = "call"
    /\ ProcIdle
    /\ RunnerIdle
    /\ call \in Calls
    /\ ret = NoRet

\* the tile map after every tile of the rectangle was fetched
AllTiles(rows, cols, z) ==
    [i \in 1..(RangeLen(rows) * RangeLen(cols)) |->
        [k |-> <<rows.start + ((i - 1) \div RangeLen(cols)),
                 cols.start + ((i - 1) % RangeLen(cols))>>,
         v |-> TileImage(rows.start + ((i - 1) \div RangeLen(cols)),
                         cols.start + ((i - 1) % RangeLen(cols)), z)]]

\* Image.new("RGB", (w, h))
ImageNew(w, h) == [size |-> <<w, h>>, box |-> <<0, 0, w, h>>, pastes |-> {}]

RoundTrip ==
    /\ pc = "call"
    /\ call.fn = "round_trip"
    /\ ret = NoRet
    /\ \E m \in {tile_to_meters(call.col, call.row, call.zoom)} :
          ret' = [fn     |-> "round_trip",
                  meters |-> m,
                  tile   |-> meters_to_tile(m[1], m[2], call.zoom)]
    /\ UNCHANGED <<proc_vars, run_vars, call>>

TileRect ==
    /\ pc = "call"
    /\ call.fn = "bbox_to_tiles"
    /\ ret = NoRet
    /\ \E rc \in {bbox_to_tiles(call.bbox, call.zoom)} :
          ret' = [fn          |-> "bbox_to_tiles",
                  row_range   |-> rc[1],
                  col_range   |-> rc[2],
                  merged_bbox |-> merged_bbox_of(rc[1], rc[2], call.zoom)]
    /\ UNCHANGED <<proc_vars, run_vars, call>>

\* what the call of crop_to_bbox(image, image_bbox, target_bbox) gave
Cropped(image, image_bbox, target_bbox) ==
    [fn          |-> "crop_to_bbox",
     image       |-> image,
     image_bbox  |-> image_bbox,
     target_bbox |-> target_bbox,
     crop        |-> crop_to_bbox(image, image_bbox, target_bbox)]

CropMosaicOf(rc) ==
    \E ib \in {merged_bbox_of(rc[1], rc[2], call.zoom)} :
        ret' = Cropped(merge_tiles(AllTiles(rc[1], rc[2], call.zoom), rc[1], rc[2]),
                       ib, IF call.identity THEN ib ELSE call.bbox)

CropMosaic ==
    /\ pc = "call"
    /\ call.fn = "crop_mosaic"
    /\ ret = NoRet
    /\ CropMosaicOf(bbox_to_tiles(call.bbox, call.zoom))
    /\ UNCHANGED <<proc_vars, run_vars, call>>

CropImage ==
    /\ pc = "call"
    /\ call.fn = "crop_image"
    /\ ret = NoRet
    /\ \E ib \in {Box(<<0, 0, call.extent, 1>>, 1)} :
          ret' = Cropped(ImageNew(call.width, 1), ib, ib)
    /\ UNCHANGED <<proc_vars, run_vars, call>>

MergeOrders ==
    /\ pc = "call"
    /\ call.fn = "merge_tiles"
    /\ ret = NoRet
    /\ ret' = [fn     |-> "merge_tiles",
               first  |-> merge_tiles(call.tiles, MergeRows, MergeCols),
               second |-> merge_tiles(call.other, MergeRows, MergeCols)]
    /\ UNCHANGED <<proc_vars, run_vars, call>>

\* select_zoom_level, with the tile counts of lines 138-139 at every zoom
SelectZoom ==
    /\ pc = "call"
    /\ call.fn = "select_zoom_level"
    /\ ret = NoRet
    /\ ret' = [fn     |-> "select_zoom_level",
               zoom   |-> select_zoom_level_at(call.bbox, call.min_pixels),
               counts |-> [z \in 0..MaxZoom |-> tile_counts(call.bbox, z)]]
    /\ UNCHANGED <<proc_vars, run_vars, call>>

MetersToTile ==
    /\ pc = "call"
    /\ call.fn = "meters_to_tile"
    /\ ret = NoRet
    /\ ret' = [fn     |-> "meters_to_tile",
               tile   |-> meters_to_tile(call.x, call.y, call.zoom),
               ratios |-> tile_ratios(call.x, call.y, call.zoom)]
    /\ UNCHANGED <<proc_vars, run_vars, call>>

NextFn ==
    \/ RoundTrip
    \/ TileRect
    \/ CropMosaic
    \/ CropImage
    \/ MergeOrders
    \/ SelectZoom
    \/ MetersToTile

SpecFn == InitFn /\ [][NextFn]_vars

(***************************************************************************)
(* Single calls of the functions of the geo-converter.                     *)
(***************************************************************************)
MaxPolygonLen == 4

\* pixels as detect.py writes them, rounded to two decimals
PixelPoints ==
    {<<Decimal(0, 100), Decimal(0, 100)>>,
     <<Decimal(51200, 100), Decimal(51200, 100)>>,
     <<Decimal(10025, 100), Decimal(3750, 100)>>}

\* image_size and bbox of a tile's metadata
ImageBoxes ==
    {[image_size |-> <<TileSize, TileSize>>, bbox |-> WarsawBox],
     [image_size |-> <<669, 401>>, bbox |-> OriginBox]}

\* the polygons of 1 to MaxPolygonLen pixels (detect.py writes four)
PolygonCalls ==
    {[fn |-> "pixel_polygon_to_lonlat_polygon", polygon_pixel |-> q,
      image_size |-> ib.image_size, bbox_3857 |-> ib.bbox] :
        q \in UNION {[1..n -> PixelPoints] : n \in 1..MaxPolygonLen},
        ib \in ImageBoxes}

MaxManifestLen == 2

\* config.py lines 16-19: the fields of the converter's Settings, with
\* OUTPUT_DIR unset or set as run_pipeline.py sets it
ConverterSettings ==
    {[detections_path |-> "/data/input/detections.json",
      meta_path       |-> "/data/input/meta.json",
      output_dir      |-> o,
      log_level       |-> "INFO"] : o \in {"/data/output", "./output"}}

TileIds == {"0_0", "0_1"}

\* tiles.json: absent, or the tiles of one parking in some order
Manifests ==
    {None} \cup
    {File([i \in 1..Len(q) |-> [tile_id |-> q[i], parking |-> "test"]]) :
        q \in UNION {[1..n -> TileIds] : n \in 0..MaxManifestLen}}

\* one detection as detect.py writes it
Detection ==
    [class_name    |-> "car",
     confidence    |-> Decimal(8731, 10000),
     polygon_pixel |-> <<<<Decimal(0, 100), Decimal(0, 100)>>,
                         <<Decimal(51200, 100), Decimal(0, 100)>>,
                         <<Decimal(51200, 100), Decimal(51200, 100)>>,
                         <<Decimal(0, 100), Decimal(51200, 100)>>>>]

\* a tile's detections file: absent, without detections or with one or two
DetectionFiles == {None, File(<<>>), File(<<Detection>>), File(<<Detection, Detection>>)}

\* a tile's metadata file: absent or present
MetaFiles == {None, File([image_size |-> <<TileSize, TileSize>>, bbox |-> WarsawBox])}

\* process_all_tiles() over the files of a run, under the settings of config.py
ProcessCalls ==
    {[fn |-> "process_all_tiles", settings |-> g,
      fs |-> [manifest |-> m, detections |-> d, meta |-> e]] :
        g \in ConverterSettings, m \in Manifests,
        d \in [TileIds -> DetectionFiles], e \in [TileIds -> MetaFiles]}

ConvCalls == PolygonCalls \cup ProcessCalls

InitConv ==
    /\ settings = [bbox |-> DefaultBox, zoom |-> 0]
    /\ pc = "call"
    /\ ProcIdle
    /\ RunnerIdle
    /\ call \in ConvCalls
    /\ ret = NoRet

PixelPolygon ==
    /\ pc = "call"
    /\ call.fn = "pixel_polygon_to_lonlat_polygon"
    /\ ret = NoRet
    /\ ret' = [fn  |-> "pixel_polygon_to_lonlat_polygon",
               out |-> pixel_polygon_to_lonlat_polygon(call.polygon_pixel,
                           call.image_size, call.bbox_3857)]
    /\ UNCHANGED <<proc_vars, run_vars, call>>

ProcessAllTiles ==
    /\ pc = "call"
    /\ call.fn = "process_all_tiles"
    /\ ret = NoRet
    /\ ret' = [fn     |-> "process_all_tiles",
               result |-> process_all_tiles(call.fs, call.settings)]
    /\ UNCHANGED <<proc_vars, run_vars, call>>

NextConv ==
    \/ PixelPolygon
    \/ ProcessAllTiles

SpecConv == InitConv /\ [][NextConv]_vars

(***************************************************************************)
(* The local pipeline runner, run_pipeline.py.  A command is a child       *)
(* process: main() waits for it in subprocess.run and sees its return code.*)
(***************************************************************************)
\* os.environ: each of the three variables main() reads is unset or set
Environs ==
    {[n \in S |-> CASE n = "OUTPUT_DIR" -> "/data/out"
                    [] n = "PARKING_NAME" -> "warsaw"
                    [] n = "MODEL_PATH" -> "/model/yolo.pt"] :
        S \in SUBSET {"OUTPUT_DIR", "PARKING_NAME", "MODEL_PATH"}}

\* the return codes of a child: success, failures, and death by signal 9
ReturnCodes == {0, 1, 2, -9}

\* os.environ.get(name, default)
EnvGet(env, name, default) == IF name \in DOMAIN env THEN env[name] ELSE default

\* lines 21-25
output_dir == EnvGet(environ, "OUTPUT_DIR", "./output")
parking_name == EnvGet(environ, "PARKING_NAME", "test")
model_path == EnvGet(environ, "MODEL_PATH", "./containers/yolo-inference/yolo26m-obb.pt")
tiles_dir == <<output_dir, parking_name>>

NumSteps == 4

\* lines 27-77: per step its headline, its script, the env it passes and
\* the message printed when it fails
Steps ==
    <<[headline |-> "STEP 1: Fetching WMTS tiles",
       script   |-> "containers/wmts-fetcher/fetch_tiles.py",
       env      |-> <<>>,
       failure  |-> "ERROR: Failed to fetch tiles"],
      [headline |-> "STEP 2: Running YOLO inference on all tiles",
       script   |-> "containers/yolo-inference/detect.py",
       env      |-> [TILES_DIR |-> tiles_dir, MODEL_PATH |-> model_path,
                     OUTPUT_DIR |-> output_dir],
       failure  |-> "ERROR: Failed to run YOLO inference"],
      [headline |-> "STEP 3: Converting detections to GeoJSON",
       script   |-> "containers/geo-converter/convert.py",
       env      |-> [TILES_DIR |-> tiles_dir, DETECTIONS_DIR |-> output_dir,
                     OUTPUT_DIR |-> output_dir],
       failure  |-> "ERROR: Failed to convert detections"],
      [headline |-> "STEP 4: Aggregating results",
       script   |-> "containers/aggregator/aggregate.py",
       env      |-> [INPUT_DIR |-> output_dir, OUTPUT_DIR |-> output_dir],
       failure  |-> "ERROR: Failed to aggregate results"]>>

\* lines 12-14: os.environ updated with env
full_env(env) ==
    [n \in DOMAIN environ \cup DOMAIN env |->
        IF n \in DOMAIN env THEN env[n] ELSE environ[n]]

\* a run_command that takes every return code for success
run_command_always(returncode) == TRUE

\* line 17
run_command(returncode) == returncode = 0

InitPipe ==
    /\ settings = [bbox |-> DefaultBox, zoom |-> 0]
    /\ pc = "none"
    /\ ProcIdle
    /\ call = NoCall
    /\ ret = NoRet
    /\ environ \in Environs
    /\ runner_pc = "main"
    /\ step = 1
    /\ commands = <<>>
    /\ returncodes = <<>>
    /\ printed = <<>>
    /\ runner_exit = 0

\* the headline of the step, and subprocess.run starts its command
StartCommand ==
    /\ runner_pc = "main"
    /\ step <= NumSteps
    /\ printed' = Append(printed, Steps[step].headline)
    /\ commands' = Append(commands, [script |-> Steps[step].script,
                                     env    |-> full_env(Steps[step].env)])
    /\ runner_pc' = "run"
    /\ UNCHANGED <<proc_vars, fn_vars, environ, step, returncodes, runner_exit>>

\* the command exits: main() goes on to the next step, or prints the
\* failure and calls sys.exit(1)
CommandExits ==
    /\ runner_pc = "run"
    /\ \E returncode \in ReturnCodes :
          /\ returncodes' = Append(returncodes, returncode)
          /\ IF run_command(returncode)
             THEN /\ runner_pc' = "main"
                  /\ step' = step + 1
                  /\ UNCHANGED <<printed, runner_exit>>
             ELSE /\ runner_pc' = "exit"
                  /\ printed' = Append(printed, Steps[step].failure)
                  /\ runner_exit' = 1
                  /\ UNCHANGED step
    /\ UNCHANGED <<proc_vars, fn_vars, environ, commands>>

\* lines 79-84, and main() returns
PipelineComplete ==
    /\ runner_pc = "main"
    /\ step > NumSteps
    /\ printed' = Append(printed, "PIPELINE COMPLETE")
    /\ runner_pc' = "exit"
    /\ runner_exit' = 0
    /\ UNCHANGED <<proc_vars, fn_vars, environ, step, commands, returncodes>>

NextPipe ==
    \/ StartCommand
    \/ CommandExits
    \/ PipelineComplete

SpecPipe == InitPipe /\ [][NextPipe]_vars

(***************************************************************************)
(* Properties of the run.                                                  *)
(***************************************************************************)
\* the cells of the tile rectangle, as <<row_idx, col_idx>>
Cells == (0..(RangeLen(row_range) - 1)) \X (0..(RangeLen(col_range) - 1))

\* the tile (row, col) of a cell
CellKey(c) == <<row_range.start + c[1], col_range.start + c[2]>>

\* the pastes of an image that touch a cell
CellPastes(image, c) ==
    {p \in image.pastes :
        /\ p.at[1] < (c[2] + 1) * TileSize
        /\ p.at[1] + TileSize > c[2] * TileSize
        /\ p.at[2] < (c[1] + 1) * TileSize
        /\ p.at[2] + TileSize > c[1] * TileSize}

\* crop_to_bbox took the branch of line 115: right <= left or bottom <= top
CropDegenerate(e) == e[3] <= e[1] \/ e[4] <= e[2]

\* two bboxes share no area
Disjoint(a, b) ==
    \/ FLe(a[3], b[1])
    \/ FLe(b[3], a[1])
    \/ FLe(a[4], b[2])
    \/ FLe(b[4], a[2])

\* C1: when the target bbox is disjoint from the mosaic bbox, or rounds to
\* zero width or height, crop_to_bbox reports a failure: it hands back no
\* image at all, neither a 0-sized one nor the uncropped mosaic.
C1_CropFailureReported ==
    (crop # NoCrop /\ (CropDegenerate(crop.edges) \/ Disjoint(settings.bbox, merged_bbox)))
        => crop.image = None

\* C2: whenever at least one tile was fetched the run raises no no-tiles
\* error and merges; the mosaic has the full size of the rectangle, every
\* cell without a tile in the map is blank and every cell with one holds
\* exactly that tile at the cell's own place.
C2_PartialMosaic ==
    /\ tiles # <<>> => error # NoTilesMessage
    /\ (tiles # <<>> /\ pc \notin {"start", "fetch"}) => merged # None
    /\ merged # None =>
          /\ merged.size = <<RangeLen(col_range) * TileSize,
                             RangeLen(row_range) * TileSize>>
          /\ \A c \in Cells :
                CellPastes(merged, c) =
                    IF DictGet(tiles, CellKey(c)) = None THEN {}
                    ELSE {[at   |-> <<c[2] * TileSize, c[1] * TileSize>>,
                           tile |-> DictGet(tiles, CellKey(c))]}

\* a 2 x 2 rectangle merged with exactly one tile missing
C2_Witness ==
    /\ merged # None
    /\ RangeLen(row_range) = 2
    /\ RangeLen(col_range) = 2
    /\ Len(tiles) = 3

\* C3: with an empty tile map the run leaves the loop only through the
\* no-tiles error, raised after every tile was asked for; such a run writes
\* no file, merges nothing and exits with status 1; and the error is raised
\* only when the tile map is empty.
C3_NoTilesFetched ==
    /\ (tiles = <<>> /\ pc \notin {"start", "fetch"}) =>
          /\ pc = "exit"
          /\ error = NoTilesMessage
    /\ error = NoTilesMessage =>
          /\ tiles = <<>>
          /\ Len(requests) = TotalTiles
          /\ pc = "exit"
          /\ exit_code = 1
          /\ files = {}
          /\ merged = None

\* every tile of a rectangle of several tiles failed
C3_Witness ==
    /\ pc = "exit"
    /\ error = NoTilesMessage
    /\ exit_code = 1
    /\ Len(requests) > 1

\* the response is one fetch_tile takes for a tile
GoodResponse(resp) ==
    /\ resp.transport = "ok"
    /\ 200 <= resp.status
    /\ resp.status <= 299
    /\ \E i \in 1..Len(resp.ctype) : resp.ctype[i] = "image"
    /\ resp.body = "image"

\* C4: fetch_tile raises nothing; it returns None for a transport error, a
\* timeout, a status outside 2xx, a content-type without "image" and a body
\* that does not decode, and the tile's image in the one remaining case.
C4_FetchTileNeverRaises ==
    response # NoResponse =>
        /\ ~returned.raised
        /\ ~GoodResponse(response) => returned.value = None
        /\ GoodResponse(response) =>
              returned.value = TileImage(requests[Len(requests)][1],
                                         requests[Len(requests)][2], zoom)

\* a 200 answer of an image type whose body does not decode, then None
C4_Witness ==
    /\ response.transport = "ok"
    /\ response.status = 200
    /\ response.ctype = <<"image", "/", "jpeg">>
    /\ response.body = "garbage"
    /\ returned = Return(None)
    /\ Len(requests) = 2

\* C5: the requests sent are the tiles of the rectangle in order, each once,
\* whatever the earlier answers were, and the run is past the loop only when
\* every tile has been asked for.
C5_EachTileOnce ==
    /\ Len(requests) <= TotalTiles
    /\ \A i \in 1..Len(requests) : requests[i] = TileAt(i - 1)
    /\ \A i, j \in 1..Len(requests) : requests[i] = requests[j] => i = j
    /\ merged # None =>
          {requests[i] : i \in 1..Len(requests)} = {CellKey(c) : c \in Cells}

\* a merge after the first tile of four failed and a later one arrived
C5_Witness ==
    /\ merged # None
    /\ TotalTiles >= 4
    /\ Len(requests) = TotalTiles
    /\ DictGet(tiles, requests[1]) = None
    /\ DictGet(tiles, requests[2]) # None

(***************************************************************************)
(* Properties of the single calls.                                         *)
(***************************************************************************)
\* bbox a lies within bbox b on all four edges
Within(a, b) ==
    /\ FLe(b[1], a[1])
    /\ FLe(b[2], a[2])
    /\ FLe(a[3], b[3])
    /\ FLe(a[4], b[4])

\* the entries of a tile map whose key lies in the rectangle
InRect(map, rows, cols) ==
    {map[i] : i \in {j \in 1..Len(map) :
        /\ rows.start <= map[j].k[1]
        /\ map[j].k[1] < rows.stop
        /\ cols.start <= map[j].k[2]
        /\ map[j].k[2] < cols.stop}}

\* C6: the mosaic is the same for the two insertion orders of the same
\* entries, and it holds each tile of the rectangle that is in the map at
\* (col_idx * tile_size, row_idx * tile_size), its own offset in the rectangle.
C6_MergeOrderIndependent ==
    ret.fn = "merge_tiles" =>
        /\ ret.first = ret.second
        /\ ret.first.pastes =
              {[at   |-> <<(d.k[2] - MergeCols.start) * TileSize,
                           (d.k[1] - MergeRows.start) * TileSize>>,
                tile |-> d.v] : d \in InRect(call.tiles, MergeRows, MergeCols)}

\* three entries inserted in two different orders, two of them or more pasted
C6_Witness ==
    /\ ret.fn = "merge_tiles"
    /\ Len(call.tiles) = 3
    /\ call.tiles # call.other
    /\ call.tiles[1].k # call.other[1].k
    /\ Cardinality(ret.first.pastes) >= 2

\* C7: for every bbox and every zoom of 0..19 the rectangle of bbox_to_tiles
\* has at least one row and one column, and the bbox of its mosaic contains
\* the bbox.
C7_MosaicContainsBBox ==
    ret.fn = "bbox_to_tiles" =>
        /\ RangeLen(ret.row_range) > 0
        /\ RangeLen(ret.col_range) > 0
        /\ Within(call.bbox, ret.merged_bbox)

\* C8: meters_to_tile of tile_to_meters of (col, row) is (col, row), for
\* every zoom of 0..19 and every tile of that zoom.
C8_TileRoundTrip ==
    ret.fn = "round_trip" => ret.tile = <<call.col, call.row>>

\* C9: a crop to the image's own bbox returns an image of the same size and
\* the image's bbox.
C9_IdentityCrop ==
    (ret.fn = "crop_to_bbox" /\ ret.target_bbox = ret.image_bbox) =>
        /\ ret.crop.image.size = ret.image.size
        /\ ret.crop.bbox = ret.image_bbox

\* C10: the bbox crop_to_bbox returns with a cropped image lies within the
\* target bbox on all four edges.
C10_ActualWithinTarget ==
    (ret.fn = "crop_to_bbox" /\ ~CropDegenerate(ret.crop.edges)) =>
        Within(ret.crop.bbox, ret.target_bbox)

\* min(tiles_x, tiles_y) * tile_size at zoom z, from the counts of a call
PixelsAt(z) == Min(ret.counts[z][1], ret.counts[z][2]) * TileSize

\* the zoom levels whose pixel extent reaches min_pixels
Qualifying == {z \in 0..MaxZoom : PixelsAt(z) >= call.min_pixels}

\* C11: select_zoom_level returns the first zoom, from 19 down to 0, whose
\* extent min(tiles_x, tiles_y) * tile_size is at least min_pixels, so the
\* extent at the returned zoom is at least min_pixels whenever some zoom
\* qualifies; when none qualifies it returns 19.
C11_FirstQualifyingZoom ==
    ret.fn = "select_zoom_level" =>
        IF Qualifying # {}
        THEN /\ ret.zoom = SetMax(Qualifying)
             /\ PixelsAt(ret.zoom) >= call.min_pixels
        ELSE ret.zoom = MaxZoom

\* a bbox for which some zoom levels qualify and others do not
C11_Witness ==
    /\ ret.fn = "select_zoom_level"
    /\ Qualifying # {}
    /\ Qualifying # 0..MaxZoom
    /\ ret.zoom \in Qualifying

\* the corners of the bbox are ordered
Ordered(bbox) == FLe(bbox[1], bbox[3]) /\ FLe(bbox[2], bbox[4])

\* C12: for every bbox with min_x <= max_x and min_y <= max_y and every zoom
\* z of 0..18, the counts of tile columns and of tile rows at zoom z + 1 are
\* at least those at zoom z, and so is the pixel extent.
C12_TileCountMonotonic ==
    (ret.fn = "select_zoom_level" /\ Ordered(call.bbox)) =>
        \A z \in 0..(MaxZoom - 1) :
            /\ ret.counts[z + 1][1] >= ret.counts[z][1]
            /\ ret.counts[z + 1][2] >= ret.counts[z][2]
            /\ PixelsAt(z + 1) >= PixelsAt(z)

\* a bbox of one tile at zoom 0 and of several columns and rows at zoom 19
C12_Witness ==
    /\ ret.fn = "select_zoom_level"
    /\ Ordered(call.bbox)
    /\ ret.counts[0] = <<1, 1>>
    /\ ret.counts[MaxZoom][1] > 1
    /\ ret.counts[MaxZoom][2] > 1

\* the floor of a float, as an integer
Floor(a) == IF a.neg /\ FFromInt(FTrunc(a)) # a THEN FTrunc(a) - 1 ELSE FTrunc(a)

\* C13: meters_to_tile returns the floor of (x + ORIGIN) / tile_size_meters
\* and of (ORIGIN - y) / tile_size_meters, also where the ratio is negative.
C13_MetersToTileFloors ==
    ret.fn = "meters_to_tile" =>
        ret.tile = <<Floor(ret.ratios[1]), Floor(ret.ratios[2])>>

\* C17: select_zoom_level returns 19 for every ordered bbox and every
\* positive min_pixels: zoom 19 qualifies whenever any zoom does.
C17_AlwaysMaxZoom ==
    (ret.fn = "select_zoom_level" /\ Ordered(call.bbox) /\ call.min_pixels > 0) =>
        /\ ret.zoom = MaxZoom
        /\ Qualifying # {} => MaxZoom \in Qualifying

\* every zoom level qualifies, zoom 0 too, and 19 is returned
C17_Witness ==
    /\ ret.fn = "select_zoom_level"
    /\ Ordered(call.bbox)
    /\ call.min_pixels > 0
    /\ Qualifying = 0..MaxZoom
    /\ ret.zoom = MaxZoom

(***************************************************************************)
(* Properties of the geo-converter.                                        *)
(***************************************************************************)
\* the coordinates of pixel i of the call's polygon
ProjectedPixel(i) ==
    pixel_to_lonlat(call.polygon_pixel[i], call.bbox_3857[1], call.bbox_3857[4],
        FDiv(FSub(call.bbox_3857[3], call.bbox_3857[1]), FFromInt(call.image_size[1])),
        FDiv(FSub(call.bbox_3857[4], call.bbox_3857[2]), FFromInt(call.image_size[2])))

\* C14: the ring pixel_polygon_to_lonlat_polygon returns for a pixel polygon
\* has one point more than the polygon, its last point is its first, and its
\* points 0..n-1 are the polygon's pixels in their order.
C14_RingClosed ==
    ret.fn = "pixel_polygon_to_lonlat_polygon" =>
        /\ ~ret.out.raised
        /\ Len(ret.out.value) = 1
        /\ Len(ret.out.value[1]) = Len(call.polygon_pixel) + 1
        /\ ret.out.value[1][Len(call.polygon_pixel) + 1] = ret.out.value[1][1]
        /\ \A i \in 1..Len(call.polygon_pixel) :
              ret.out.value[1][i] = ProjectedPixel(i)

\* a polygon of four pixels whose first and last pixel differ
C14_Witness ==
    /\ ret.fn = "pixel_polygon_to_lonlat_polygon"
    /\ Len(call.polygon_pixel) = 4
    /\ call.polygon_pixel[1] # call.polygon_pixel[4]
    /\ call.polygon_pixel[2] # call.polygon_pixel[3]
    /\ ret.out.value[1][1] # ret.out.value[1][4]
    /\ Len(ret.out.value[1]) = 5

\* a tile of the manifest whose detections file and metadata file both exist
Convertible(tile) ==
    /\ call.fs.detections[tile.tile_id] # None
    /\ call.fs.meta[tile.tile_id] # None

\* the tiles of the manifest that are not skipped, in manifest order
Converted == SelectSeq(call.fs.manifest.data, Convertible)

RECURSIVE FeatureCount(_)
FeatureCount(written) ==
    IF written = <<>> THEN 0
    ELSE Len(Head(written).features) + FeatureCount(Tail(written))

\* C15: process_all_tiles skips a tile whose detections file or metadata
\* file is missing without aborting, converts every other tile of tiles.json
\* in manifest order, and returns the number of converted tiles and the sum
\* of their feature counts; without tiles.json it raises and converts
\* nothing.
C15_MissingTileFilesSkipped ==
    ret.fn = "process_all_tiles" =>
        IF call.fs.manifest = None
        THEN /\ ret.result.out.raised
             /\ ret.result.files = <<>>
        ELSE /\ ~ret.result.out.raised
             /\ Len(ret.result.files) = Len(Converted)
             /\ \A i \in 1..Len(Converted) :
                   /\ ret.result.files[i].properties.tile_id = Converted[i].tile_id
                   /\ Len(ret.result.files[i].features)
                         = Len(call.fs.detections[Converted[i].tile_id].data)
             /\ ret.result.out.value.processed_tiles = Len(Converted)
             /\ ret.result.out.value.total_vehicles = FeatureCount(ret.result.files)

(***************************************************************************)
(* Properties of the pipeline runner.                                      *)
(***************************************************************************)
\* the steps that exited with a return code other than 0
FailedSteps == {i \in 1..Len(returncodes) : returncodes[i] # 0}

\* C16: the commands run are fetch, inference, geo-conversion, aggregation
\* in this order; a step is started only after the one before it exited with
\* return code 0; at the first step that exits non-zero the runner exits
\* with status 1 and starts no later step; "PIPELINE COMPLETE" is printed
\* only after all four steps exited with 0.
C16_StepsInOrder ==
    /\ Len(commands) <= NumSteps
    /\ \A i \in 1..Len(commands) :
          /\ commands[i].script = Steps[i].script
          /\ i > 1 => (Len(returncodes) >= i - 1 /\ returncodes[i - 1] = 0)
    /\ \A i \in FailedSteps :
          /\ runner_pc = "exit"
          /\ runner_exit = 1
          /\ Len(commands) = i
          /\ Len(returncodes) = i
    /\ (\E i \in 1..Len(printed) : printed[i] = "PIPELINE COMPLETE") =>
          (Len(returncodes) = NumSteps /\ FailedSteps = {})

\* the third step fails after two steps that succeeded
C16_Witness ==
    /\ runner_pc = "exit"
    /\ runner_exit = 1
    /\ Len(commands) = 3
    /\ returncodes[1] = 0
    /\ returncodes[2] = 0
    /\ returncodes[3] # 0

=============================================================================
